---- MODULE Spec2Model ----
(***************************************************************************)
(* Scoring and multi-provider evaluation engine of test_generator:        *)
(*   app/core/grader.py                 Grader                            *)
(*   app/services/model_answer_tester.py ModelAnswerTester                *)
(* Floats are modelled exactly: a credit is a rational <<num, den>> with  *)
(* den > 0, and a value rounded to 4 places is an integer number of       *)
(* ten-thousandths.                                                       *)
(***************************************************************************)
EXTENDS Integers, Sequences, FiniteSets, TLC

VARIABLES
    expected,   \* Grader: the expected index list (question.correct)
    given,      \* Grader: the given index list (student_answer.choice)
    call,       \* Grader: the last call on (expected, given) and what it returned
    g_exam,             \* Grader.grade: exam.questions
    g_request,          \* Grader.grade: request.answers
    g_partial_credit,   \* Grader.grade: the partial_credit flag
    g_pc,               \* Grader.grade: where the call is
    g_idx,              \* Grader.grade: the index of the running for loop
    g_results,          \* Grader.grade: results
    g_total_credit,     \* Grader.grade: total_credit, in ten-thousandths
    g_outcome,          \* Grader.grade: the GradeResponse returned or the error raised
    g_calls,            \* Grader.grade: the earlier calls on this Grader, as their callers saw them
    entry,              \* ModelAnswerTester: the method the caller invoked
    t_exam,             \* test_model_on_exam: exam.questions
    t_output_dir,       \* test_model_on_exam: whether output_dir is given
    t_model_name,       \* test_model_on_exam: model_name
    t_provider,         \* test_model_on_exam: provider
    t_pc,               \* test_model_on_exam: where the call is
    client,             \* test_model_on_exam: the provider client (its model field)
    original_model,     \* test_model_on_exam: original_model
    t_idx,              \* test_model_on_exam: the index of "for question in exam.questions"
    model_answer,       \* test_model_on_exam: model_answer of the running question
    per_question_results, \* test_model_on_exam: per_question_results
    correct_count,      \* test_model_on_exam: correct_count
    t_is_correct,       \* test_model_on_exam: is_correct, as last assigned
    t_result,           \* test_model_on_exam: result, once built
    t_pending,          \* test_model_on_exam: the exception on its way out, if any
    t_outcome,          \* test_model_on_exam: what the call gave its caller
    last_call,          \* the latest call made on a provider client
    files,              \* the result documents written so far
    models,             \* batch_test_models: models
    b_pc,               \* batch_test_models: where the call is
    b_idx,              \* batch_test_models: the index of "for model_config in models"
    results,            \* batch_test_models: results
    attempts,           \* batch_test_models: the calls of test_model_on_exam that ended
    c_results,          \* compare_models: results
    c_output_dir,       \* compare_models: whether output_dir is given
    c_pc,               \* compare_models: where the call is
    c_idx,              \* compare_models: the index of the running "for result in results"
    comparison,         \* compare_models: comparison
    question_breakdown, \* compare_models: question_breakdown
    c_outcome,           \* compare_models: what the call gave its caller
    runs,               \* concurrent test_model_on_exam calls: the locals of each call
    instances           \* concurrent test_model_on_exam calls: the model field of each client object

gqvars == <<expected, given, call>>
gvars == <<g_exam, g_request, g_partial_credit, g_pc, g_idx, g_results,
           g_total_credit, g_outcome, g_calls>>
targs == <<entry, t_exam, t_output_dir>>
tframe == <<t_model_name, t_provider, t_pc, client, original_model, t_idx,
            model_answer, per_question_results, correct_count, t_is_correct,
            t_result, t_pending, t_outcome>>
tvars == <<targs, tframe, last_call, files>>
bvars == <<models, b_pc, b_idx, results, attempts>>
cvars == <<c_results, c_output_dir, c_pc, c_idx, comparison, question_breakdown,
           c_outcome>>
kvars == <<runs, instances>>
vars == <<gqvars, gvars, tvars, bvars, cvars, kvars>>

\* what the steps of one component leave alone
notgq == <<gvars, tvars, bvars, cvars, kvars>>
notg == <<gqvars, tvars, bvars, cvars, kvars>>
nott == <<gqvars, gvars, cvars, kvars>>
notc == <<gqvars, gvars, targs, tframe, last_call, bvars, kvars>>
notk == <<gqvars, gvars, tvars, bvars, cvars>>

----------------------------------------------------------------------------
(* Bounds of the model *)

\* option indices are 0..MaxIdx
MaxIdx == 2
\* index lists have at most MaxLen entries
MaxLen == 3

Indices == 0..MaxIdx

SeqsUpTo(S, n) == UNION {[1..k -> S] : k \in 0..n}

IndexLists == SeqsUpTo(Indices, MaxLen)

\* an exam has at most MaxQuestions questions
MaxQuestions == 3
\* a batch has at most MaxModels model configs
MaxModels == 2
\* the exam of a batch has at most MaxBatchQuestions questions
MaxBatchQuestions == 1
\* compare_models is given at most MaxResults results
MaxResults == 2
\* the exam the compared results are about has MaxCompareQuestions questions
MaxCompareQuestions == 1
\* a GradeRequest has at most MaxAnswers answers
MaxAnswers == 2

ChoiceTypes == {"single_choice", "multiple_choice"}

----------------------------------------------------------------------------
(* Python values *)

\* set(l)
set(l) == {l[i] : i \in DOMAIN l}

\* insertion of x into a sorted list
RECURSIVE Insert(_, _)
Insert(x, l) ==
    IF l = <<>> THEN <<x>>
    ELSE IF x <= Head(l) THEN <<x>> \o l
    ELSE <<Head(l)>> \o Insert(x, Tail(l))

\* sorted(l)
RECURSIVE sorted(_)
sorted(l) == IF l = <<>> THEN <<>> ELSE Insert(Head(l), sorted(Tail(l)))

\* a float that is a ratio of two integers
Rat(n, d) == <<n, d>>
RatEq(a, b) == a[1] * b[2] = b[1] * a[2]
RatLe(a, b) == a[1] * b[2] <= b[1] * a[2]
RatLt(a, b) == a[1] * b[2] < b[1] * a[2]
RatMin(a, b) == IF RatLe(a, b) THEN a ELSE b
RatMax(a, b) == IF RatLe(b, a) THEN a ELSE b
Zero == Rat(0, 1)
One == Rat(1, 1)

\* round(n / d) to an integer, ties to even as Python rounds
RoundInt(n, d) ==
    LET q == n \div d
        r == n % d
    IN  IF 2 * r < d THEN q
        ELSE IF 2 * r > d THEN q + 1
        ELSE q + (q % 2)

\* round(x, 4), in ten-thousandths
Round4(x) == RoundInt(x[1] * 10000, x[2])

\* round(x, 2), in hundredths
Round2(x) == RoundInt(x[1] * 100, x[2])

----------------------------------------------------------------------------
(* Grader.calculate_partial_credit *)

\* as calculate_partial_credit, with the wrong selections not subtracted
calculate_partial_credit_NoPenalty(exp, giv) ==
    LET expected_set == set(exp)
        given_set == set(giv)
        correct_selected == Cardinality(expected_set \cap given_set)
        total_expected == Cardinality(expected_set)
    IN  IF total_expected = 0 THEN Zero
        ELSE RatMax(Zero, RatMin(One, Rat(correct_selected, total_expected)))

\* as calculate_partial_credit, dividing by len(expected) instead of len(set(expected))
calculate_partial_credit_ListLen(exp, giv) ==
    LET expected_set == set(exp)
        given_set == set(giv)
        correct_selected == Cardinality(expected_set \cap given_set)
        wrong_selected == Cardinality(given_set \ expected_set)
        total_expected == Len(exp)
    IN  IF total_expected = 0 THEN Zero
        ELSE RatMax(Zero, RatMin(One, Rat(correct_selected - wrong_selected, total_expected)))

\* as calculate_partial_credit, with min(1.0, credit) and no max(0.0, ...)
calculate_partial_credit_NoFloor(exp, giv) ==
    LET expected_set == set(exp)
        given_set == set(giv)
        correct_selected == Cardinality(expected_set \cap given_set)
        wrong_selected == Cardinality(given_set \ expected_set)
        total_expected == Cardinality(expected_set)
    IN  IF total_expected = 0 THEN Zero
        ELSE RatMin(One, Rat(correct_selected - wrong_selected, total_expected))

calculate_partial_credit(exp, giv) ==
    LET expected_set == set(exp)
        given_set == set(giv)
        correct_selected == Cardinality(expected_set \cap given_set)
        wrong_selected == Cardinality(given_set \ expected_set)
        total_expected == Cardinality(expected_set)
    IN  IF total_expected = 0 THEN Zero
        ELSE RatMax(Zero, RatMin(One, Rat(correct_selected - wrong_selected, total_expected)))

(* Grader._grade_question *)

\* the multiple_choice test "expected_sorted == given_sorted"
FullyCorrect(exp, giv) == sorted(exp) = sorted(giv)

\* as _grade_question, without the single_choice branch: every question goes
\* through the multiple_choice comparison
_grade_question_NoSingleBranch(question, giv, partial_credit) ==
    LET exp == question.correct
        is_correct == FullyCorrect(exp, giv)
        credit ==
            IF is_correct THEN One
            ELSE IF partial_credit THEN calculate_partial_credit(exp, giv)
            ELSE Zero
    IN  [question_id |-> question.id,
         is_correct |-> is_correct,
         expected |-> exp,
         given |-> giv,
         partial_credit |-> Round4(credit)]

\* as _grade_question, with the partial_credit flag not consulted
_grade_question_FlagIgnored(question, giv, partial_credit) ==
    LET exp == question.correct
        is_correct ==
            IF question.type = "single_choice" THEN giv = exp
            ELSE FullyCorrect(exp, giv)
        credit ==
            IF question.type = "single_choice"
            THEN (IF is_correct THEN One ELSE Zero)
            ELSE IF is_correct THEN One
            ELSE calculate_partial_credit(exp, giv)
    IN  [question_id |-> question.id,
         is_correct |-> is_correct,
         expected |-> exp,
         given |-> giv,
         partial_credit |-> Round4(credit)]

_grade_question(question, giv, partial_credit) ==
    LET exp == question.correct
        is_correct ==
            IF question.type = "single_choice" THEN giv = exp
            ELSE FullyCorrect(exp, giv)
        credit ==
            IF question.type = "single_choice"
            THEN (IF is_correct THEN One ELSE Zero)
            ELSE IF is_correct THEN One
            ELSE IF partial_credit THEN calculate_partial_credit(exp, giv)
            ELSE Zero
    IN  [question_id |-> question.id,
         is_correct |-> is_correct,
         expected |-> exp,
         given |-> giv,
         partial_credit |-> Round4(credit)]

\* ModelAnswerTester._check_answer, for a model_answer that has "choice"
_check_answer(question, answer) ==
    IF question.type = "single_choice" THEN answer.choice = question.correct
    ELSE IF question.type = "multiple_choice" THEN set(answer.choice) = set(question.correct)
    ELSE FALSE

----------------------------------------------------------------------------
(* The scoring functions applied to every pair of index lists *)

NoCall == [op |-> "none"]

\* the Grader is not called
GIdle ==
    /\ g_exam = <<>>
    /\ g_request = <<>>
    /\ g_partial_credit = FALSE
    /\ g_pc = "idle"
    /\ g_idx = 0
    /\ g_results = <<>>
    /\ g_total_credit = 0
    /\ g_outcome = [kind |-> "none"]
    /\ g_calls = <<>>

NoClient == [exists |-> FALSE]
NoCallYet == [fn |-> "none"]
NoOutcome == [kind |-> "none"]
NoAnswer == [kind |-> "none"]
NoResult == [kind |-> "none"]

\* no test_model_on_exam call is running: its locals do not exist
TFrameIdle ==
    /\ t_model_name = ""
    /\ t_provider = ""
    /\ t_pc = "idle"
    /\ client = NoClient
    /\ original_model = ""
    /\ t_idx = 0
    /\ model_answer = NoAnswer
    /\ per_question_results = <<>>
    /\ correct_count = 0
    /\ t_is_correct = FALSE
    /\ t_result = NoResult
    /\ t_pending = ""
    /\ t_outcome = NoOutcome

\* the ModelAnswerTester is not called
TIdle ==
    /\ entry = "none"
    /\ t_exam = <<>>
    /\ t_output_dir = FALSE
    /\ TFrameIdle
    /\ last_call = NoCallYet
    /\ files = <<>>

\* batch_test_models is not called
BIdle ==
    /\ models = <<>>
    /\ b_pc = "idle"
    /\ b_idx = 0
    /\ results = <<>>
    /\ attempts = <<>>

NoComparison == [kind |-> "none"]

\* compare_models is not called
CIdle ==
    /\ c_results = <<>>
    /\ c_output_dir = FALSE
    /\ c_pc = "idle"
    /\ c_idx = 0
    /\ comparison = NoComparison
    /\ question_breakdown = <<>>
    /\ c_outcome = NoOutcome

\* no two calls of test_model_on_exam run side by side
KIdle ==
    /\ runs = <<>>
    /\ instances = <<>>

\* the scoring functions are not called
GQIdle ==
    /\ expected = <<>>
    /\ given = <<>>
    /\ call = [op |-> "idle"]

GQInit ==
    /\ KIdle
    /\ expected \in IndexLists
    /\ given \in IndexLists
    /\ call = NoCall
    /\ GIdle
    /\ TIdle
    /\ BIdle
    /\ CIdle

\* a Question is valid by construction: single_choice has exactly one correct index
ValidQuestion(type, exp) == type = "single_choice" => Len(exp) = 1

CallCalculatePartialCredit ==
    /\ call = NoCall
    /\ call' = [op |-> "calculate_partial_credit",
                credit |-> calculate_partial_credit(expected, given)]
    /\ UNCHANGED <<expected, given, notgq>>

CallGradeQuestion ==
    /\ call = NoCall
    /\ \E type \in ChoiceTypes, partial_credit \in BOOLEAN :
        /\ ValidQuestion(type, expected)
        /\ call' = [op |-> "_grade_question",
                    type |-> type,
                    flag |-> partial_credit,
                    result |-> _grade_question(
                        [id |-> "q1", type |-> type, correct |-> expected],
                        given, partial_credit)]
    /\ UNCHANGED <<expected, given, notgq>>

\* the evaluator's _check_answer and the Grader's _grade_question are applied
\* to the same choice question and the same list of indices
CallCheckAnswer ==
    /\ call = NoCall
    /\ \E type \in ChoiceTypes :
        /\ ValidQuestion(type, expected)
        /\ LET question == [id |-> "q1", type |-> type, correct |-> expected]
           IN  call' = [op |-> "_check_answer",
                        type |-> type,
                        verdict |-> _check_answer(question, [choice |-> given]),
                        graded |-> _grade_question(question, given, TRUE)]
    /\ UNCHANGED <<expected, given, notgq>>

GQNext == CallCalculatePartialCredit \/ CallGradeQuestion \/ CallCheckAnswer

SpecQuestion == GQInit /\ [][GQNext]_vars

----------------------------------------------------------------------------
(* Grader.grade *)

\* the questions exams are made of
SingleQ == [id |-> "q1", type |-> "single_choice", correct |-> <<1>>]
MultiQ == [id |-> "q2", type |-> "multiple_choice", correct |-> <<0, 2>>]
\* an exam's open_ended question: it has no options and no correct indices
OpenQ == [id |-> "q3", type |-> "open_ended", correct |-> <<>>,
          reference_answer |-> "ref", rubric |-> <<"c1", "c2", "c3">>]
GradePool == {SingleQ, MultiQ, OpenQ}

\* Exam validates that question ids are unique
UniqueIds(qs) == \A i, j \in DOMAIN qs : qs[i].id = qs[j].id => i = j
GradeExams == {e \in SeqsUpTo(GradePool, MaxQuestions) : UniqueIds(e)}

\* the index lists a student gives
GradeChoices == {<<>>, <<1>>, <<0>>, <<0, 2>>, <<2, 0>>}
AnswerIds == {q.id : q \in GradePool} \cup {"invalid_id"}
StudentAnswers == [question_id : AnswerIds, choice : GradeChoices]
\* GradeRequest validates that the answer list is not empty
GradeRequests == SeqsUpTo(StudentAnswers, MaxAnswers) \ {<<>>}

GInit ==
    /\ KIdle
    /\ g_exam \in GradeExams
    /\ g_request \in GradeRequests
    /\ g_partial_credit \in BOOLEAN
    /\ g_pc = "start"
    /\ g_idx = 0
    /\ g_results = <<>>
    /\ g_total_credit = 0
    /\ g_outcome = [kind |-> "none"]
    /\ g_calls = <<>>
    /\ GQIdle
    /\ TIdle
    /\ BIdle
    /\ CIdle

\* questions_map = {q.id: q for q in exam.questions}
questions_map == [id \in {g_exam[i].id : i \in DOMAIN g_exam} |->
                    CHOOSE q \in {g_exam[i] : i \in DOMAIN g_exam} : q.id = id]

\* as ValidateAnswer below, with the check of the question id left out
KnownId_Any(id) == TRUE

\* answer.question_id in questions_map
KnownId(id) == id \in DOMAIN questions_map

\* the empty check, then the question lookup is built
GradeStart ==
    /\ g_pc = "start"
    /\ IF g_request = <<>>
       THEN /\ g_pc' = "raised"
            /\ g_outcome' = [kind |-> "error", error |-> "ValueError",
                             message |-> "GradeRequest must contain at least one answer"]
            /\ g_idx' = g_idx
       ELSE /\ g_pc' = "validate"
            /\ g_idx' = 1
            /\ g_outcome' = g_outcome
    /\ UNCHANGED <<g_exam, g_request, g_partial_credit, g_results, g_total_credit, g_calls, notg>>

\* one pass of "for answer in request.answers": the id is known
ValidateAnswer ==
    /\ g_pc = "validate"
    /\ g_idx <= Len(g_request)
    /\ KnownId(g_request[g_idx].question_id)
    /\ g_idx' = g_idx + 1
    /\ UNCHANGED <<g_exam, g_request, g_partial_credit, g_pc, g_results,
                   g_total_credit, g_outcome, g_calls, notg>>

\* one pass of "for answer in request.answers": the id is not known, ValueError
ValidateRaise ==
    /\ g_pc = "validate"
    /\ g_idx <= Len(g_request)
    /\ ~KnownId(g_request[g_idx].question_id)
    /\ g_pc' = "raised"
    /\ g_outcome' = [kind |-> "error", error |-> "ValueError",
                     message |-> "Question ID not found in exam"]
    /\ UNCHANGED <<g_exam, g_request, g_partial_credit, g_idx, g_results,
                   g_total_credit, g_calls, notg>>

\* as AtGradingStart, with results and total_credit kept on the Grader from
\* one call to the next instead of being bound afresh
AtGradingStart_Kept(old, fresh) == old

\* results = [] and total_credit = 0.0: what a local of the grading loop holds
\* when the loop starts
AtGradingStart(old, fresh) == fresh

\* the validation loop is over: results and total_credit are bound
ValidateDone ==
    /\ g_pc = "validate"
    /\ g_idx > Len(g_request)
    /\ g_pc' = "grade"
    /\ g_idx' = 1
    /\ g_results' = AtGradingStart(g_results, <<>>)
    /\ g_total_credit' = AtGradingStart(g_total_credit, 0)
    /\ UNCHANGED <<g_exam, g_request, g_partial_credit, g_outcome, g_calls, notg>>

\* one pass of "for student_answer in request.answers"
GradeAnswer ==
    /\ g_pc = "grade"
    /\ g_idx <= Len(g_request)
    /\ LET student_answer == g_request[g_idx] IN
       IF student_answer.question_id \in DOMAIN questions_map
       THEN LET question == questions_map[student_answer.question_id]
                result == _grade_question(question, student_answer.choice, g_partial_credit)
            IN  /\ g_results' = Append(g_results, result)
                /\ g_total_credit' = g_total_credit + result.partial_credit
                /\ g_idx' = g_idx + 1
                /\ UNCHANGED <<g_pc, g_outcome>>
       ELSE \* questions_map[...] raises KeyError
            /\ g_pc' = "raised"
            /\ g_outcome' = [kind |-> "error", error |-> "KeyError",
                             message |-> student_answer.question_id]
            /\ UNCHANGED <<g_results, g_total_credit, g_idx>>
    /\ UNCHANGED <<g_exam, g_request, g_partial_credit, g_calls, notg>>

\* as GradeSummary, with the totals taken over the questions of the exam
GradeSummary_OverExam(exam_questions, res, total_credit) ==
    LET total_questions == Len(exam_questions)
        g_correct_count == Cardinality({i \in DOMAIN res : res[i].is_correct})
        score_percent ==
            IF total_questions > 0
            THEN Rat(total_credit, total_questions * 100)
            ELSE Zero
    IN  [total |-> total_questions,
         correct |-> g_correct_count,
         score_percent |-> Round2(score_percent)]

\* as GradeSummary, with every result that earned some credit counted as correct
GradeSummary_CountsCredit(exam_questions, res, total_credit) ==
    LET total_questions == Len(res)
        g_correct_count == Cardinality({i \in DOMAIN res : res[i].partial_credit > 0})
        score_percent ==
            IF total_questions > 0
            THEN Rat(total_credit, total_questions * 100)
            ELSE Zero
    IN  [total |-> total_questions,
         correct |-> g_correct_count,
         score_percent |-> Round2(score_percent)]

\* as GradeSummary, with score_percent the share of correct answers
GradeSummary_ShareCorrect(exam_questions, res, total_credit) ==
    LET total_questions == Len(res)
        g_correct_count == Cardinality({i \in DOMAIN res : res[i].is_correct})
        score_percent ==
            IF total_questions > 0
            THEN Rat(g_correct_count * 10000, total_questions * 100)
            ELSE Zero
    IN  [total |-> total_questions,
         correct |-> g_correct_count,
         score_percent |-> Round2(score_percent)]

\* the summary: total_credit is in ten-thousandths, score_percent in hundredths
\* of a percent
GradeSummary(exam_questions, res, total_credit) ==
    LET total_questions == Len(res)
        g_correct_count == Cardinality({i \in DOMAIN res : res[i].is_correct})
        score_percent ==
            IF total_questions > 0
            THEN Rat(total_credit, total_questions * 100)
            ELSE Zero
    IN  [total |-> total_questions,
         correct |-> g_correct_count,
         score_percent |-> Round2(score_percent)]

\* the summary and the GradeResponse
GradeReturn ==
    /\ g_pc = "grade"
    /\ g_idx > Len(g_request)
    /\ g_outcome' = [kind |-> "response",
                     summary |-> GradeSummary(g_exam, g_results, g_total_credit),
                     per_question |-> g_results]
    /\ g_pc' = "returned"
    /\ UNCHANGED <<g_exam, g_request, g_partial_credit, g_idx, g_results,
                   g_total_credit, g_calls, notg>>

GNext ==
    \/ GradeStart
    \/ ValidateAnswer
    \/ ValidateRaise
    \/ ValidateDone
    \/ GradeAnswer
    \/ GradeReturn

SpecGrade == GInit /\ [][GNext]_vars

(* Grader.grade called again on the same Grader *)

\* a Grader is called at most MaxCalls times
MaxCalls == 3

\* the first call has one or two answers
GRepeatInit == GInit /\ Len(g_request) <= 2

\* the inputs of a finished call
Inputs(c) == <<c.exam, c.request, c.partial_credit>>
ThisCall == [exam |-> g_exam, request |-> g_request,
             partial_credit |-> g_partial_credit, outcome |-> g_outcome]

\* the call is over and the caller calls grade again: with the inputs of this
\* or of an earlier call, or with the first answer alone and the flag changed.
\* The new call's results and total_credit are bound when its grading loop
\* starts; until then the variables keep what they last held.
GradeCall ==
    /\ g_pc \in {"returned", "raised"}
    /\ Len(g_calls) + 1 < MaxCalls
    /\ g_calls' = Append(g_calls, ThisCall)
    /\ \E next \in {Inputs(ThisCall)}
                    \cup {Inputs(g_calls[i]) : i \in 1..Len(g_calls)}
                    \cup {<<g_exam, <<g_request[1]>>, ~g_partial_credit>>} :
        /\ g_exam' = next[1]
        /\ g_request' = next[2]
        /\ g_partial_credit' = next[3]
    /\ g_pc' = "start"
    /\ g_idx' = 0
    /\ g_outcome' = [kind |-> "none"]
    /\ UNCHANGED <<g_results, g_total_credit, notg>>

GRepeatNext == GNext \/ GradeCall

SpecGradeRepeated == GRepeatInit /\ [][GRepeatNext]_vars

----------------------------------------------------------------------------
(* ModelAnswerTester.test_model_on_exam *)

TestPool == {SingleQ, MultiQ, OpenQ}
TestExams == {e \in SeqsUpTo(TestPool, MaxQuestions) : UniqueIds(e)}

ModelNames == {"m1", "m2"}
Providers == {"openai", "yandex", "azure"}
SupportedProviders == {"openai", "yandex"}

\* settings.openai_model / the Yandex client's configured model
DefaultModel(provider) == IF provider = "openai" THEN "gpt-4o-mini" ELSE "yandexgpt-lite"

\* the index lists a model chooses
ModelChoices == {<<1>>, <<2, 0>>}

\* client.answer_question on an OpenAIClient: the class defines no
\* answer_question, so the attribute lookup raises
OpenAIAnswerOutcomes == {[kind |-> "raise", error |-> "AttributeError"]}

\* client.answer_question on a YandexGPTClient: it raises, or returns a dict
\* that has the key the caller reads, or a dict that lacks it
YandexAnswerOutcomes(question) ==
    {[kind |-> "raise", error |-> "RuntimeError"],
     [kind |-> "return", answer |-> [reasoning |-> "r"]]}
    \cup (IF question.type = "open_ended"
          THEN {[kind |-> "return", answer |-> [text_answer |-> "a"]]}
          ELSE {[kind |-> "return", answer |-> [choice |-> c, reasoning |-> "r"]] :
                   c \in ModelChoices})

\* what client.answer_question does for the running provider
AnswerOutcomes(provider, question) ==
    IF provider = "openai" THEN OpenAIAnswerOutcomes ELSE YandexAnswerOutcomes(question)

\* what client.grade_open_ended does: it raises, or returns score, rubric_scores
\* (one per criterion) and feedback
GradeOutcomes(provider, question) ==
    {[kind |-> "raise", error |-> "RuntimeError"]}
    \cup {[kind |-> "return",
           result |-> [score |-> sc[1], rubric_scores |-> sc[2], feedback |-> "f"]] :
            sc \in {<<Rat(67, 100), <<1, 1, 0>>>>,
                    <<Rat(7, 10), <<1, 1, 0>>>>,
                    <<Rat(1, 1), <<1, 1, 1>>>>}}

\* the 70% threshold
Threshold == Rat(7, 10)

\* as MeetsThreshold, with > for >=
MeetsThreshold_Strict(score) == RatLt(Threshold, score)

\* grading_result["score"] >= 0.7
MeetsThreshold(score) == RatLe(Threshold, score)

\* the entry of a choice question that was answered and checked
ChoiceEntry(question, answer) ==
    [question_id |-> question.id,
     question_type |-> question.type,
     correct |-> _check_answer(question, answer),
     model_answer |-> answer.choice,
     expected_answer |-> question.correct,
     reasoning |-> answer.reasoning]

\* the entry of the "except Exception" branch
ErrorEntry(question, e) ==
    [question_id |-> question.id, question_type |-> question.type,
     correct |-> FALSE, error |-> e]

\* OpenAIClient() / YandexGPTClient() succeeds: client.model is the configured model
Construct ==
    /\ t_pc = "construct"
    /\ t_provider \in SupportedProviders
    /\ client' = [exists |-> TRUE, model |-> DefaultModel(t_provider)]
    /\ t_pc' = "override"
    /\ UNCHANGED <<targs, t_model_name, t_provider, original_model, t_idx, model_answer,
                   per_question_results, correct_count, t_is_correct, t_result, t_pending,
                   t_outcome, last_call, files, bvars, nott>>

\* the client's __init__ raises (no API key): the exception leaves the call
ConstructFails ==
    /\ t_pc = "construct"
    /\ t_provider \in SupportedProviders
    /\ t_pc' = "raised"
    /\ t_outcome' = [kind |-> "exception", error |-> "ValueError"]
    /\ UNCHANGED <<targs, t_model_name, t_provider, client, original_model, t_idx,
                   model_answer, per_question_results, correct_count, t_is_correct, t_result,
                   t_pending, last_call, files, bvars, nott>>

\* raise ValueError(f"Unsupported provider: {provider}")
UnsupportedProvider ==
    /\ t_pc = "construct"
    /\ t_provider \notin SupportedProviders
    /\ t_pc' = "raised"
    /\ t_outcome' = [kind |-> "exception", error |-> "ValueError"]
    /\ UNCHANGED <<targs, t_model_name, t_provider, client, original_model, t_idx,
                   model_answer, per_question_results, correct_count, t_is_correct, t_result,
                   t_pending, last_call, files, bvars, nott>>

\* original_model = client.model; client.model = model_name; the try block starts
Override ==
    /\ t_pc = "override"
    /\ original_model' = client.model
    /\ client' = [client EXCEPT !.model = t_model_name]
    /\ per_question_results' = <<>>
    /\ correct_count' = 0
    /\ t_idx' = 1
    /\ t_pc' = "loop"
    /\ UNCHANGED <<targs, t_model_name, t_provider, model_answer, t_is_correct, t_result,
                   t_pending, t_outcome, last_call, files, bvars, nott>>

\* "except Exception" catches every exception a provider call or the check raises
Caught_OnlyRuntimeError(e) == e = "RuntimeError"

Caught(e) == TRUE

\* per_question_results after the except branch
AfterError_NoEntry(entries, question, e) == entries

AfterError(entries, question, e) == Append(entries, ErrorEntry(question, e))

\* as ThisQuestion, with the questions taken from the last to the first
ThisQuestion_Reversed == t_exam[Len(t_exam) + 1 - t_idx]

\* the running question of "for question in exam.questions"
ThisQuestion == t_exam[t_idx]

\* as CountAfterError, with "if is_correct: correct_count += 1" run after the
\* except branch too, on the is_correct of an earlier question
CountAfterError_Stale(count, stale_is_correct) ==
    IF stale_is_correct THEN count + 1 ELSE count

\* correct_count after the except branch: the increment is inside the try block
CountAfterError(count, stale_is_correct) == count

\* a per-question step raised e: caught, recorded, and the loop goes on; an
\* exception that is not caught leaves through the finally block
Failed(e) ==
    IF Caught(e)
    THEN /\ per_question_results' = AfterError(per_question_results, ThisQuestion, e)
         /\ correct_count' = CountAfterError(correct_count, t_is_correct)
         /\ t_idx' = t_idx + 1
         /\ t_pc' = "loop"
         /\ t_pending' = t_pending
    ELSE /\ per_question_results' = per_question_results
         /\ correct_count' = correct_count
         /\ t_idx' = t_idx
         /\ t_pc' = "finally"
         /\ t_pending' = e

\* a question was judged: its entry is appended and counted
Judged(entry_, verdict) ==
    /\ per_question_results' = Append(per_question_results, entry_)
    /\ t_is_correct' = verdict
    /\ correct_count' = IF verdict THEN correct_count + 1 ELSE correct_count
    /\ t_idx' = t_idx + 1
    /\ t_pc' = "loop"
    /\ t_pending' = t_pending

\* client.answer_question for the running question and, for a choice question,
\* the rest of the loop body
AnswerQuestion ==
    /\ t_pc = "loop"
    /\ t_idx <= Len(t_exam)
    /\ \E o \in AnswerOutcomes(t_provider, ThisQuestion) :
        /\ last_call' = [fn |-> "answer_question", model |-> client.model,
                         question_id |-> ThisQuestion.id, run |-> t_model_name,
                         outcome |-> o.kind]
        /\ IF o.kind = "raise"
           THEN Failed(o.error) /\ UNCHANGED <<model_answer, t_is_correct>>
           ELSE IF ThisQuestion.type = "open_ended"
           THEN IF "text_answer" \in DOMAIN o.answer
                THEN /\ model_answer' = o.answer
                     /\ t_pc' = "grade_open_ended"
                     /\ UNCHANGED <<per_question_results, correct_count, t_is_correct,
                                    t_idx, t_pending>>
                ELSE Failed("KeyError") /\ UNCHANGED <<model_answer, t_is_correct>>
           ELSE IF "choice" \in DOMAIN o.answer
                THEN /\ Judged(ChoiceEntry(ThisQuestion, o.answer),
                               _check_answer(ThisQuestion, o.answer))
                     /\ UNCHANGED model_answer
                ELSE Failed("KeyError") /\ UNCHANGED <<model_answer, t_is_correct>>
    /\ UNCHANGED <<targs, t_model_name, t_provider, client, original_model, t_result,
                   t_outcome, files, bvars, nott>>

\* client.grade_open_ended for the running question and the rest of the loop body
GradeOpenEnded ==
    /\ t_pc = "grade_open_ended"
    /\ \E o \in GradeOutcomes(t_provider, ThisQuestion) :
        /\ last_call' = [fn |-> "grade_open_ended", model |-> client.model,
                         question_id |-> ThisQuestion.id, run |-> t_model_name,
                         outcome |-> o.kind]
        /\ IF o.kind = "raise"
           THEN Failed(o.error) /\ UNCHANGED t_is_correct
           ELSE LET grading_result == o.result
                    verdict == MeetsThreshold(grading_result.score)
                IN  Judged([question_id |-> ThisQuestion.id,
                            question_type |-> ThisQuestion.type,
                            correct |-> verdict,
                            model_answer |-> model_answer.text_answer,
                            expected_answer |-> ThisQuestion.reference_answer,
                            grading_score |-> grading_result.score,
                            feedback |-> grading_result.feedback,
                            rubric_scores |-> grading_result.rubric_scores],
                           verdict)
    /\ model_answer' = NoAnswer
    /\ UNCHANGED <<targs, t_model_name, t_provider, client, original_model, t_result,
                   t_outcome, files, bvars, nott>>

\* as Accuracy, with an empty exam counted as fully correct
Accuracy_EmptyIsPerfect(count, questions) ==
    IF questions # <<>> THEN Rat(count, Len(questions)) ELSE One

\* as Accuracy, with the floor division "//" in place of "/"
Accuracy_FloorDivision(count, questions) ==
    IF questions # <<>> THEN Rat(count \div Len(questions), 1) ELSE Zero

\* accuracy = correct_count / len(exam.questions) if exam.questions else 0.0
Accuracy(count, questions) ==
    IF questions # <<>> THEN Rat(count, Len(questions)) ELSE Zero

\* the loop is over: accuracy (in ten-thousandths) and the ModelTestResult
BuildResult ==
    /\ t_pc = "loop"
    /\ t_idx > Len(t_exam)
    /\ LET accuracy == Accuracy(correct_count, t_exam)
       IN  t_result' = [kind |-> "ModelTestResult",
                        model_name |-> t_model_name,
                        provider |-> t_provider,
                        total_questions |-> Len(t_exam),
                        correct_count |-> correct_count,
                        accuracy |-> Round4(accuracy),
                        per_question_results |-> per_question_results]
    /\ t_pc' = IF t_output_dir THEN "save" ELSE "finally"
    /\ UNCHANGED <<targs, t_model_name, t_provider, client, original_model, t_idx,
                   model_answer, per_question_results, correct_count, t_is_correct,
                   t_pending, t_outcome, last_call, files, bvars, nott>>

\* self.save_result(result, output_dir) writes the document
SaveResult ==
    /\ t_pc = "save"
    /\ files' = Append(files, [kind |-> "model_test", model_name |-> t_result.model_name])
    /\ t_pc' = "finally"
    /\ UNCHANGED <<targs, t_model_name, t_provider, client, original_model, t_idx,
                   model_answer, per_question_results, correct_count, t_is_correct,
                   t_result, t_pending, t_outcome, last_call, bvars, nott>>

\* self.save_result(result, output_dir) raises (mkdir, open or json.dump fails)
SaveResultFails ==
    /\ t_pc = "save"
    /\ t_pending' = "OSError"
    /\ t_pc' = "finally"
    /\ UNCHANGED <<targs, t_model_name, t_provider, client, original_model, t_idx,
                   model_answer, per_question_results, correct_count, t_is_correct,
                   t_result, t_outcome, last_call, files, bvars, nott>>

\* as Restore, with the model left as it is
Restore_Skip(c, original) == c

\* client.model = original_model
Restore(c, original) == [c EXCEPT !.model = original]

\* the finally block, then the return of result or the exception on its way out
Finally ==
    /\ t_pc = "finally"
    /\ client' = Restore(client, original_model)
    /\ IF t_pending = ""
       THEN /\ t_pc' = "returned"
            /\ t_outcome' = [kind |-> "result", result |-> t_result]
       ELSE /\ t_pc' = "raised"
            /\ t_outcome' = [kind |-> "exception", error |-> t_pending]
    /\ UNCHANGED <<targs, t_model_name, t_provider, original_model, t_idx, model_answer,
                   per_question_results, correct_count, t_is_correct, t_result, t_pending,
                   last_call, files, bvars, nott>>

TestModelOnExam ==
    \/ Construct
    \/ ConstructFails
    \/ UnsupportedProvider
    \/ Override
    \/ AnswerQuestion
    \/ GradeOpenEnded
    \/ BuildResult
    \/ SaveResult
    \/ SaveResultFails
    \/ Finally

\* a caller invokes test_model_on_exam(exam, model_name, provider, output_dir)
TInit ==
    /\ KIdle
    /\ entry = "test_model_on_exam"
    /\ t_exam \in TestExams
    /\ t_output_dir \in BOOLEAN
    /\ t_model_name \in ModelNames
    /\ t_provider \in Providers
    /\ t_pc = "construct"
    /\ client = NoClient
    /\ original_model = ""
    /\ t_idx = 0
    /\ model_answer = NoAnswer
    /\ per_question_results = <<>>
    /\ correct_count = 0
    /\ t_is_correct = FALSE
    /\ t_result = NoResult
    /\ t_pending = ""
    /\ t_outcome = NoOutcome
    /\ last_call = NoCallYet
    /\ files = <<>>
    /\ BIdle
    /\ CIdle
    /\ GIdle
    /\ GQIdle

SpecTester == TInit /\ [][TestModelOnExam]_vars

----------------------------------------------------------------------------
(* ModelAnswerTester.batch_test_models *)

\* the model configs batches are made of: one per provider value
ModelConfigs == {[model_name |-> "m1", provider |-> "openai"],
                 [model_name |-> "m2", provider |-> "yandex"],
                 [model_name |-> "m3", provider |-> "azure"]}
\* the exams of a batch: every short exam, and one with a choice question
\* before an open_ended one
BatchExams ==
    {e \in SeqsUpTo(TestPool, MaxBatchQuestions) : UniqueIds(e)} \cup {<<SingleQ, OpenQ>>}

\* a caller invokes batch_test_models(exam, models, output_dir)
BInit ==
    /\ KIdle
    /\ entry = "batch_test_models"
    /\ t_exam \in BatchExams
    /\ t_output_dir \in BOOLEAN
    /\ TFrameIdle
    /\ last_call = NoCallYet
    /\ files = <<>>
    /\ models \in SeqsUpTo(ModelConfigs, MaxModels)
    /\ b_pc = "loop"
    /\ b_idx = 1
    /\ results = <<>>
    /\ attempts = <<>>
    /\ CIdle
    /\ GIdle
    /\ GQIdle

\* the locals of a test_model_on_exam call that ended are gone
TFrameGone ==
    /\ t_model_name' = ""
    /\ t_provider' = ""
    /\ t_pc' = "idle"
    /\ client' = NoClient
    /\ original_model' = ""
    /\ t_idx' = 0
    /\ model_answer' = NoAnswer
    /\ per_question_results' = <<>>
    /\ correct_count' = 0
    /\ t_is_correct' = FALSE
    /\ t_result' = NoResult
    /\ t_pending' = ""
    /\ t_outcome' = NoOutcome

\* one pass of "for model_config in models": test_model_on_exam is called
BatchCall ==
    /\ b_pc = "loop"
    /\ b_idx <= Len(models)
    /\ t_model_name' = models[b_idx].model_name
    /\ t_provider' = models[b_idx].provider
    /\ t_pc' = "construct"
    /\ b_pc' = "calling"
    /\ UNCHANGED <<targs, client, original_model, t_idx, model_answer,
                   per_question_results, correct_count, t_is_correct, t_result,
                   t_pending, t_outcome, last_call, files, models, b_idx, results,
                   attempts, nott>>

\* the call returned: results.append(result)
BatchAppend ==
    /\ b_pc = "calling"
    /\ t_pc = "returned"
    /\ results' = Append(results, t_outcome.result)
    /\ attempts' = Append(attempts, [index |-> b_idx, ended |-> t_pc])
    /\ b_idx' = b_idx + 1
    /\ b_pc' = "loop"
    /\ TFrameGone
    /\ UNCHANGED <<targs, last_call, files, models, nott>>

\* as AfterFailure, with the exception ending the batch loop
AfterFailure_Abort(idx) == Len(models) + 1

\* the loop index after "except Exception": the next model config
AfterFailure(idx) == idx + 1

\* the call raised: the exception is caught and printed, the model is skipped
BatchSkip ==
    /\ b_pc = "calling"
    /\ t_pc = "raised"
    /\ attempts' = Append(attempts, [index |-> b_idx, ended |-> t_pc])
    /\ b_idx' = AfterFailure(b_idx)
    /\ b_pc' = "loop"
    /\ TFrameGone
    /\ UNCHANGED <<targs, last_call, files, models, results, nott>>

\* return results
BatchReturn ==
    /\ b_pc = "loop"
    /\ b_idx > Len(models)
    /\ b_pc' = "returned"
    /\ UNCHANGED <<tvars, models, b_idx, results, attempts, nott>>

BatchTestModels ==
    \/ BatchCall
    \/ BatchAppend
    \/ BatchSkip
    \/ BatchReturn
    \/ TestModelOnExam

SpecBatch == BInit /\ [][BatchTestModels]_vars

----------------------------------------------------------------------------
(* Two calls of ModelAnswerTester.test_model_on_exam running side by side *)

Runs == {1, 2}

\* as ClientFor, with one client object kept and handed to every call
ClientFor_Shared(heap) == 1

\* client = OpenAIClient() / client = YandexGPTClient(): the call makes a new
\* object, which no other call holds
ClientFor(heap) == Len(heap) + 1

\* two callers invoke test_model_on_exam on the same exam, each with its own
\* model name
KInit ==
    /\ entry = "test_model_on_exam"
    /\ t_exam \in TestExams
    /\ t_output_dir = FALSE
    /\ TFrameIdle
    /\ last_call = NoCallYet
    /\ files = <<>>
    /\ \E names \in {<<"m1", "m2">>, <<"m2", "m1">>} :
       \E providers \in SupportedProviders \X SupportedProviders :
          runs = [p \in Runs |-> [model_name |-> names[p],
                                   provider |-> providers[p],
                                   pc |-> "construct",
                                   client |-> 0,
                                   original_model |-> "",
                                   idx |-> 0,
                                   used |-> {}]]
    /\ instances = <<>>
    /\ BIdle
    /\ CIdle
    /\ GIdle
    /\ GQIdle

\* the client's constructor succeeds: client.model is the configured model
KConstruct(p) ==
    /\ runs[p].pc = "construct"
    /\ LET c == ClientFor(instances)
       IN  /\ instances' = IF c > Len(instances)
                            THEN Append(instances, DefaultModel(runs[p].provider))
                            ELSE instances
           /\ runs' = [runs EXCEPT ![p].client = c, ![p].pc = "override"]
    /\ UNCHANGED notk

\* the client's constructor raises: the exception leaves the call
KConstructFails(p) ==
    /\ runs[p].pc = "construct"
    /\ runs' = [runs EXCEPT ![p].pc = "raised"]
    /\ UNCHANGED <<instances, notk>>

\* original_model = client.model; client.model = model_name
KOverride(p) ==
    /\ runs[p].pc = "override"
    /\ runs' = [runs EXCEPT ![p].original_model = instances[runs[p].client],
                             ![p].idx = 1,
                             ![p].pc = "loop"]
    /\ instances' = [instances EXCEPT ![runs[p].client] = runs[p].model_name]
    /\ UNCHANGED notk

\* client.answer_question for the running question: a YandexGPTClient sends
\* the request under client.model; an OpenAIClient has no such method. The
\* loop goes on to grade_open_ended or to the next question.
KAnswerQuestion(p) ==
    /\ runs[p].pc = "loop"
    /\ runs[p].idx <= Len(t_exam)
    /\ \E o \in AnswerOutcomes(runs[p].provider, t_exam[runs[p].idx]) :
        LET sent == IF runs[p].provider = "openai"
                    THEN runs[p].used
                    ELSE runs[p].used \cup {instances[runs[p].client]}
            graded == /\ o.kind = "return"
                      /\ t_exam[runs[p].idx].type = "open_ended"
                      /\ "text_answer" \in DOMAIN o.answer
        IN  runs' = [runs EXCEPT ![p].used = sent,
                                 ![p].pc = IF graded THEN "grade_open_ended" ELSE "loop",
                                 ![p].idx = IF graded THEN @ ELSE @ + 1]
    /\ UNCHANGED <<instances, notk>>

\* client.grade_open_ended for the running question, sent under client.model
KGradeOpenEnded(p) ==
    /\ runs[p].pc = "grade_open_ended"
    /\ runs' = [runs EXCEPT ![p].used = @ \cup {instances[runs[p].client]},
                             ![p].pc = "loop",
                             ![p].idx = @ + 1]
    /\ UNCHANGED <<instances, notk>>

\* the loop is over and the result is built
KBuildResult(p) ==
    /\ runs[p].pc = "loop"
    /\ runs[p].idx > Len(t_exam)
    /\ runs' = [runs EXCEPT ![p].pc = "finally"]
    /\ UNCHANGED <<instances, notk>>

\* the finally block: client.model = original_model, then the call returns
KFinally(p) ==
    /\ runs[p].pc = "finally"
    /\ instances' = [instances EXCEPT ![runs[p].client] = runs[p].original_model]
    /\ runs' = [runs EXCEPT ![p].pc = "returned"]
    /\ UNCHANGED notk

ConcurrentCalls ==
    \E p \in Runs :
        \/ KConstruct(p)
        \/ KConstructFails(p)
        \/ KOverride(p)
        \/ KAnswerQuestion(p)
        \/ KGradeOpenEnded(p)
        \/ KBuildResult(p)
        \/ KFinally(p)

SpecConcurrent == KInit /\ [][ConcurrentCalls]_vars

----------------------------------------------------------------------------
(* ModelAnswerTester.compare_models *)

\* the exam the compared results are about
CompareExam == SubSeq(<<SingleQ, MultiQ>>, 1, MaxCompareQuestions)

\* an entry that carries nothing but the question id: per_question_results is
\* a list of plain dicts, and compare_models reads them with .get
BareEntry(question) == [question_id |-> question.id]

\* the entries test_model_on_exam records for a choice question, and a bare one
EntriesFor(question) ==
    {ChoiceEntry(question, [choice |-> c, reasoning |-> "r"]) : c \in ModelChoices}
    \cup {ErrorEntry(question, "RuntimeError")}
    \cup {BareEntry(question)}

EntryLists ==
    {l \in [1..Len(CompareExam) -> UNION {EntriesFor(CompareExam[i]) : i \in 1..Len(CompareExam)}] :
        \A i \in 1..Len(CompareExam) : l[i] \in EntriesFor(CompareExam[i])}

NumCorrect(entries) ==
    Cardinality({i \in 1..Len(entries) :
                    "correct" \in DOMAIN entries[i] /\ entries[i].correct})

\* a ModelTestResult as test_model_on_exam builds it
MakeResult(name, provider, entries) ==
    [kind |-> "ModelTestResult",
     model_name |-> name,
     provider |-> provider,
     total_questions |-> Len(entries),
     correct_count |-> NumCorrect(entries),
     accuracy |-> Round4(IF entries # <<>> THEN Rat(NumCorrect(entries), Len(entries)) ELSE Zero),
     per_question_results |-> entries]

CompareResults == {MakeResult(name, "yandex", entries) : name \in ModelNames, entries \in EntryLists}

\* a caller invokes compare_models(results, output_dir)
CInit ==
    /\ KIdle
    /\ c_results \in SeqsUpTo(CompareResults, MaxResults)
    /\ c_output_dir \in BOOLEAN
    /\ c_pc = "start"
    /\ c_idx = 0
    /\ comparison = NoComparison
    /\ question_breakdown = <<>>
    /\ c_outcome = NoOutcome
    /\ TIdle
    /\ BIdle
    /\ GIdle
    /\ GQIdle

\* d[k] = v on a dict
SetKey(d, k, v) == [x \in DOMAIN d \cup {k} |-> IF x = k THEN v ELSE d[x]]

\* d.get(k, default)
Get(d, k, default) == IF k \in DOMAIN d THEN d[k] ELSE default

\* as EmptyMarker, with a comparison that has no models in place of the error
EmptyMarker_EmptyComparison ==
    [kind |-> "comparison", total_questions |-> 0, models |-> <<>>,
     best_model |-> "None", best_accuracy |-> 0, per_question_breakdown |-> <<>>]

\* {"error": "No results to compare"}
EmptyMarker == [error |-> "No results to compare"]

\* if not results: return {"error": "No results to compare"}
CompareEmpty ==
    /\ c_pc = "start"
    /\ c_results = <<>>
    /\ c_outcome' = [kind |-> "return", value |-> EmptyMarker]
    /\ c_pc' = "returned"
    /\ UNCHANGED <<c_results, c_output_dir, c_idx, comparison, question_breakdown,
                   files, notc>>

\* the comparison dict is created
CompareStart ==
    /\ c_pc = "start"
    /\ c_results # <<>>
    /\ comparison' = [kind |-> "comparison",
                      total_questions |-> c_results[1].total_questions,
                      models |-> <<>>,
                      best_model |-> "None",
                      best_accuracy |-> 0]
    /\ c_idx' = 1
    /\ c_pc' = "models"
    /\ UNCHANGED <<c_results, c_output_dir, question_breakdown, c_outcome, files, notc>>

\* as Better, with >= for >
Better_OrEqual(accuracy, best_accuracy) == accuracy >= best_accuracy

\* result.accuracy > comparison["best_accuracy"]
Better(accuracy, best_accuracy) == accuracy > best_accuracy

\* one pass of the first "for result in results"
CompareModel ==
    /\ c_pc = "models"
    /\ c_idx <= Len(c_results)
    /\ LET result == c_results[c_idx]
           model_info == [model_name |-> result.model_name,
                          provider |-> result.provider,
                          accuracy |-> result.accuracy,
                          correct_count |-> result.correct_count,
                          ai_pass_rate |-> result.accuracy]
           appended == [comparison EXCEPT !.models = Append(@, model_info)]
       IN  comparison' =
               IF Better(result.accuracy, comparison.best_accuracy)
               THEN [appended EXCEPT !.best_accuracy = result.accuracy,
                                     !.best_model = result.model_name]
               ELSE appended
    /\ c_idx' = c_idx + 1
    /\ UNCHANGED <<c_results, c_output_dir, c_pc, question_breakdown, c_outcome,
                   files, notc>>

\* the first loop is over: question_breakdown = {}
CompareModelsDone ==
    /\ c_pc = "models"
    /\ c_idx > Len(c_results)
    /\ question_breakdown' = <<>>
    /\ c_idx' = 1
    /\ c_pc' = "breakdown"
    /\ UNCHANGED <<c_results, c_output_dir, comparison, c_outcome, files, notc>>

\* as AddEntry, with q_result.get("correct", True)
AddEntry_MissingIsCorrect(bd, q_result, name) ==
    LET q_id == q_result.question_id
        known == IF q_id \in DOMAIN bd THEN bd
                 ELSE SetKey(bd, q_id,
                             [question_type |-> Get(q_result, "question_type", "unknown"),
                              models_correct |-> <<>>,
                              models_incorrect |-> <<>>])
    IN  IF Get(q_result, "correct", TRUE)
        THEN [known EXCEPT ![q_id].models_correct = Append(@, name)]
        ELSE [known EXCEPT ![q_id].models_incorrect = Append(@, name)]

\* the body of "for q_result in result.per_question_results"
AddEntry(bd, q_result, name) ==
    LET q_id == q_result.question_id
        known == IF q_id \in DOMAIN bd THEN bd
                 ELSE SetKey(bd, q_id,
                             [question_type |-> Get(q_result, "question_type", "unknown"),
                              models_correct |-> <<>>,
                              models_incorrect |-> <<>>])
    IN  IF Get(q_result, "correct", FALSE)
        THEN [known EXCEPT ![q_id].models_correct = Append(@, name)]
        ELSE [known EXCEPT ![q_id].models_incorrect = Append(@, name)]

\* "for q_result in result.per_question_results"
RECURSIVE AddEntries(_, _, _)
AddEntries(bd, entries, name) ==
    IF entries = <<>> THEN bd
    ELSE AddEntries(AddEntry(bd, Head(entries), name), Tail(entries), name)

\* one pass of the second "for result in results"
BreakdownResult ==
    /\ c_pc = "breakdown"
    /\ c_idx <= Len(c_results)
    /\ question_breakdown' =
        AddEntries(question_breakdown, c_results[c_idx].per_question_results,
                   c_results[c_idx].model_name)
    /\ c_idx' = c_idx + 1
    /\ UNCHANGED <<c_results, c_output_dir, c_pc, comparison, c_outcome, files, notc>>

\* comparison["per_question_breakdown"] = question_breakdown
BreakdownDone ==
    /\ c_pc = "breakdown"
    /\ c_idx > Len(c_results)
    /\ comparison' = SetKey(comparison, "per_question_breakdown", question_breakdown)
    /\ c_pc' = IF c_output_dir THEN "save" ELSE "return"
    /\ UNCHANGED <<c_results, c_output_dir, c_idx, question_breakdown, c_outcome,
                   files, notc>>

\* the comparison document is written; comparison["comparison_file"] is set
CompareSave ==
    /\ c_pc = "save"
    /\ files' = Append(files, [kind |-> "model_comparison", best_model |-> comparison.best_model])
    /\ comparison' = SetKey(comparison, "comparison_file", "path")
    /\ c_pc' = "return"
    /\ UNCHANGED <<c_results, c_output_dir, c_idx, question_breakdown, c_outcome, notc>>

\* mkdir, open or json.dump raises: the exception leaves compare_models
CompareSaveFails ==
    /\ c_pc = "save"
    /\ c_outcome' = [kind |-> "exception", error |-> "OSError"]
    /\ c_pc' = "raised"
    /\ UNCHANGED <<c_results, c_output_dir, c_idx, comparison, question_breakdown,
                   files, notc>>

\* return comparison
CompareReturn ==
    /\ c_pc = "return"
    /\ c_outcome' = [kind |-> "return", value |-> comparison]
    /\ c_pc' = "returned"
    /\ UNCHANGED <<c_results, c_output_dir, c_idx, comparison, question_breakdown,
                   files, notc>>

CompareModels ==
    \/ CompareEmpty
    \/ CompareStart
    \/ CompareModel
    \/ CompareModelsDone
    \/ BreakdownResult
    \/ BreakdownDone
    \/ CompareSave
    \/ CompareSaveFails
    \/ CompareReturn

SpecCompare == CInit /\ [][CompareModels]_vars

----------------------------------------------------------------------------
(* Claims about the scoring functions *)

\* the indices that occur in a list, counted without building set(l)
Occurs(i, l) == \E k \in 1..Len(l) : l[k] = i
NumBoth == Cardinality({i \in Indices : Occurs(i, expected) /\ Occurs(i, given)})
NumWrong == Cardinality({i \in Indices : Occurs(i, given) /\ ~Occurs(i, expected)})
NumExpected == Cardinality({i \in Indices : Occurs(i, expected)})
SameIndexSet == \A i \in Indices : Occurs(i, expected) <=> Occurs(i, given)

IsCredit == call.op = "calculate_partial_credit"
IsGraded == call.op = "_grade_question"
IsGradedMultiple == IsGraded /\ call.type = "multiple_choice"

\* C8 (as stated): for every multiple_choice question and given list,
\* is_correct is true exactly when set(given) = set(expected), and the credit
\* is then 1.0.
C8_MultipleChoiceSetEquality ==
    IsGradedMultiple =>
        /\ call.result.is_correct <=> SameIndexSet
        /\ SameIndexSet => call.result.partial_credit = 10000

\* C9: calculate_partial_credit(expected, given) is
\* clamp((|E n G| - |G \ E|) / |E|, 0, 1), and 0.0 when E is empty; it lies in
\* [0, 1]; and the three examples of the specification hold.
C9_PartialCreditFormula ==
    /\ IsCredit =>
        /\ call.credit[2] > 0
        /\ RatLe(Zero, call.credit) /\ RatLe(call.credit, One)
        /\ NumExpected = 0 => RatEq(call.credit, Zero)
        /\ NumExpected > 0 =>
            LET x == NumBoth - NumWrong
            IN  /\ x <= 0 => RatEq(call.credit, Zero)
                /\ x >= NumExpected => RatEq(call.credit, One)
                /\ (0 < x /\ x < NumExpected) => call.credit[1] * NumExpected = x * call.credit[2]
    /\ RatEq(calculate_partial_credit(<<0, 2, 4>>, <<0, 2>>), Rat(2, 3))
    /\ RatEq(calculate_partial_credit(<<0, 2, 4>>, <<0, 1, 2>>), Rat(1, 3))
    /\ RatEq(calculate_partial_credit(<<0, 2, 4>>, <<1, 3, 5>>), Zero)

\* C9 witness: a credit strictly between 0 and 1 that a wrong selection lowered
C9_Witness ==
    /\ IsCredit
    /\ NumWrong > 0
    /\ RatLt(Zero, call.credit) /\ RatLt(call.credit, One)

\* C10 (as stated): the credit is 1.0 if and only if set(given) = set(expected),
\* empty sets included.
C10_FullCreditIffSameSet ==
    IsCredit => (RatEq(call.credit, One) <=> SameIndexSet)

\* C10 (amended): the credit is 1.0 if and only if set(given) = set(expected)
\* and expected is not empty; for an empty expected list the credit is 0.0,
\* also when given is empty too.
C10_FullCreditIffSameNonEmptySet ==
    IsCredit =>
        /\ RatEq(call.credit, One) <=> (SameIndexSet /\ expected # <<>>)
        /\ expected = <<>> => RatEq(call.credit, Zero)

\* C10 witness: full credit for a given list that is not the expected list
C10_Witness ==
    /\ IsCredit
    /\ RatEq(call.credit, One)
    /\ given # expected
    /\ Len(given) # Len(expected)

IsGradedSingle == IsGraded /\ call.type = "single_choice"

\* given equals expected, element for element
SameList ==
    /\ Len(given) = Len(expected)
    /\ \A k \in 1..Len(given) : given[k] = expected[k]

\* C11: for every single_choice question and given list, is_correct is true
\* exactly when the given list equals the expected singleton list element for
\* element; the credit is 1.0 when correct and 0.0 otherwise, whatever the
\* partial_credit flag is.
C11_SingleChoiceExactEquality ==
    IsGradedSingle =>
        /\ Len(expected) = 1
        /\ call.result.is_correct <=> SameList
        /\ call.result.partial_credit = (IF SameList THEN 10000 ELSE 0)

\* C11 witness: partial credit is asked for and the given list names the
\* expected index twice, so the sets agree and the lists do not: credit 0.0
C11_Witness ==
    /\ IsGradedSingle
    /\ call.flag
    /\ SameIndexSet
    /\ ~SameList
    /\ ~call.result.is_correct
    /\ call.result.partial_credit = 0

\* the value of the partial-credit formula, from the counts
FormulaCredit ==
    LET x == NumBoth - NumWrong
    IN  IF NumExpected = 0 \/ x <= 0 THEN Zero
        ELSE IF x >= NumExpected THEN One
        ELSE Rat(x, NumExpected)

\* C12: for a multiple_choice answer whose index set is not the expected set
\* (or that was not found correct), is_correct is false and the credit is the formula value (to 4 places) when
\* partial_credit is true and 0.0 when it is false; and with the flag the other
\* way round is_correct would have been the same.
C12_PartialCreditFlag ==
    IsGradedMultiple =>
        /\ (~SameIndexSet \/ ~call.result.is_correct) =>
            /\ ~call.result.is_correct
            /\ call.flag => call.result.partial_credit = Round4(FormulaCredit)
            /\ ~call.flag => call.result.partial_credit = 0
        /\ call.result.is_correct =
               _grade_question([id |-> "q1", type |-> call.type, correct |-> expected],
                               given, ~call.flag).is_correct

\* C12 witness: partial_credit is false and the formula value would have been
\* positive: the credit is 0.0
C12_Witness ==
    /\ IsGradedMultiple
    /\ ~call.flag
    /\ ~SameIndexSet
    /\ RatLt(Zero, FormulaCredit)
    /\ call.result.partial_credit = 0
    /\ ~call.result.is_correct

IsChecked == call.op = "_check_answer"

\* C24 (as stated): for every choice question and every chosen index list (any
\* order, duplicates allowed), _check_answer returns true exactly when
\* _grade_question reports is_correct = true.
C24_CheckAnswerAgreesWithGrader ==
    IsChecked => (call.verdict <=> call.graded.is_correct)

\* C28: for a non-empty expected set, calculate_partial_credit does not go down
\* when an expected index is added to the given list, does not go up when an
\* index that is not expected is added, and is never negative.
C28_PartialCreditMonotone ==
    (IsCredit /\ expected # <<>>) =>
        /\ RatLe(Zero, call.credit)
        /\ \A i \in Indices :
            LET more == calculate_partial_credit(expected, Append(given, i))
            IN  /\ Occurs(i, expected) => RatLe(call.credit, more)
                /\ ~Occurs(i, expected) => RatLe(more, call.credit)

\* C28 witness: a credit strictly between 0 and 1 that one more expected index
\* raises and one more index that is not expected lowers
C28_Witness ==
    /\ IsCredit
    /\ RatLt(Zero, call.credit) /\ RatLt(call.credit, One)
    /\ \E i \in Indices :
        /\ Occurs(i, expected)
        /\ RatLt(call.credit, calculate_partial_credit(expected, Append(given, i)))
    /\ \E i \in Indices :
        /\ ~Occurs(i, expected)
        /\ RatLt(calculate_partial_credit(expected, Append(given, i)), call.credit)

\* C29 (as stated): a QuestionResult has is_correct = true if and only if its
\* partial_credit is 1.0, for both choice types, both values of the flag and
\* every given list (any order, duplicates allowed).
C29_CorrectIffFullCredit ==
    IsGraded => (call.result.is_correct <=> call.result.partial_credit = 10000)

----------------------------------------------------------------------------
(* Claims about Grader.grade *)

\* some answer of the request names a question the exam does not have
HasUnknownId ==
    \E i \in 1..Len(g_request) :
        \A k \in 1..Len(g_exam) : g_exam[k].id # g_request[i].question_id

\* C1: when some answer's question_id is not among the exam's question ids (at
\* any position), grade ends by raising an error, returns no GradeResponse, and
\* no answer is graded before the error.
C1_UnknownIdAbortsWholeCall ==
    HasUnknownId =>
        /\ g_results = <<>>
        /\ g_total_credit = 0
        /\ g_pc # "grade"
        /\ g_pc # "returned"
        /\ g_outcome.kind # "response"
        /\ g_pc = "raised" =>
            /\ g_outcome.kind = "error"
            /\ g_outcome.error = "ValueError"
        /\ ~ENABLED GNext => g_pc = "raised"

\* C1 witness: the error is raised for an unknown id that follows a valid answer
C1_Witness ==
    /\ g_pc = "raised"
    /\ g_idx = 2
    /\ HasUnknownId
    /\ \E k \in 1..Len(g_exam) : g_exam[k].id = g_request[1].question_id
    /\ g_results = <<>>

\* the call returned a GradeResponse
Graded == g_pc = "returned" /\ g_outcome.kind = "response"
Response == g_outcome
Result(i) == g_outcome.per_question[i]

\* C13: a successful grade call returns one QuestionResult per answer of the
\* request, in request order, each with the question_id and the choice of its
\* answer, and summary.total is the number of answers, whatever the number of
\* exam questions and also when answers repeat a question_id.
C13_OneResultPerAnswer ==
    Graded =>
        /\ Len(Response.per_question) = Len(g_request)
        /\ \A i \in 1..Len(g_request) :
            /\ Result(i).question_id = g_request[i].question_id
            /\ Result(i).given = g_request[i].choice
        /\ Response.summary.total = Len(g_request)

\* C13 witness: the exam has two questions and the request answers the same
\* one twice
C13_Witness ==
    /\ Graded
    /\ Len(g_exam) = 2
    /\ Len(g_request) = 2
    /\ g_request[1].question_id = g_request[2].question_id
    /\ g_request[1].choice # g_request[2].choice
    /\ Response.summary.total = 2

\* the results up to i that are correct, counted one by one
RECURSIVE CorrectUpTo(_)
CorrectUpTo(i) ==
    IF i = 0 THEN 0
    ELSE CorrectUpTo(i - 1) + (IF Result(i).is_correct THEN 1 ELSE 0)

\* C14: summary.correct is the number of results with is_correct = true, a
\* result with a credit strictly between 0 and 1 is not correct, and
\* correct <= total.
C14_CorrectCountsIsCorrect ==
    Graded =>
        /\ Response.summary.correct = CorrectUpTo(Len(Response.per_question))
        /\ \A i \in 1..Len(Response.per_question) :
            (0 < Result(i).partial_credit /\ Result(i).partial_credit < 10000)
                => ~Result(i).is_correct
        /\ Response.summary.correct <= Response.summary.total

\* C14 witness: one answer is correct and one has partial credit 0.5: correct is 1
C14_Witness ==
    /\ Graded
    /\ Len(Response.per_question) = 2
    /\ Result(1).is_correct
    /\ Result(2).partial_credit = 5000
    /\ Response.summary.correct = 1

\* the credits of the results up to i, added one by one (ten-thousandths)
RECURSIVE CreditUpTo(_)
CreditUpTo(i) == IF i = 0 THEN 0 ELSE CreditUpTo(i - 1) + Result(i).partial_credit

\* C15: score_percent is round(mean(per-answer credit) * 100, 2), the mean
\* taken over the graded answers, and lies in [0, 100].
C15_ScorePercentIsMeanCredit ==
    Graded =>
        LET n == Len(Response.per_question)
        IN  /\ n > 0
            /\ Response.summary.score_percent = Round2(Rat(CreditUpTo(n), n * 100))
            /\ 0 <= Response.summary.score_percent
            /\ Response.summary.score_percent <= 10000

\* C15 witness: a two-question exam with one answer, of partial credit 0.5:
\* score_percent is 50.0
C15_Witness ==
    /\ Graded
    /\ Len(g_exam) = 2
    /\ Len(Response.per_question) = 1
    /\ ~Result(1).is_correct
    /\ Response.summary.score_percent = 5000

\* the type of the question a result is about
TypeOf(id) == (CHOOSE q \in {g_exam[k] : k \in 1..Len(g_exam)} : q.id = id).type

\* C16 (as stated): grade never scores an answer to an open_ended question by
\* comparing index lists: no QuestionResult is produced for it.
C16_OpenEndedNotGraded ==
    \A i \in 1..Len(g_results) : TypeOf(g_results[i].question_id) # "open_ended"

\* the calls on this Grader that are over, the running one included once it is
FinishedCalls ==
    IF g_pc \in {"returned", "raised"} THEN Append(g_calls, ThisCall) ELSE g_calls

\* C17: two grade calls on the same (exam, request, partial_credit) have the
\* same outcome, the same GradeResponse field for field or the same error,
\* whatever calls the Grader served before and between them.
C17_GradeIsDeterministic ==
    \A i, j \in 1..Len(FinishedCalls) :
        Inputs(FinishedCalls[i]) = Inputs(FinishedCalls[j])
            => FinishedCalls[i].outcome = FinishedCalls[j].outcome

\* C17 witness: a call that earned credit, then a call on other inputs, then
\* the first call again, with a GradeResponse
C17_Witness ==
    /\ Len(FinishedCalls) = 3
    /\ Inputs(FinishedCalls[1]) = Inputs(FinishedCalls[3])
    /\ Inputs(FinishedCalls[2]) # Inputs(FinishedCalls[1])
    /\ FinishedCalls[2].outcome.kind = "response"
    /\ FinishedCalls[3].outcome.kind = "response"
    /\ FinishedCalls[3].outcome.summary.score_percent > 0
    /\ Len(FinishedCalls[3].outcome.per_question) = 2

----------------------------------------------------------------------------
(* Claims about ModelAnswerTester.test_model_on_exam *)

InTry == t_pc \in {"loop", "grade_open_ended", "save", "finally"}
Ended == t_pc \in {"returned", "raised"}
HasError(e) == "error" \in DOMAIN e
Entry(i) == per_question_results[i]

\* C2: the client's model goes default -> model_name -> default: every provider
\* call of the run is made under model_name, and however the call ends after
\* the override (return, per-question failures, a failing save) the model
\* field is back at the value it had before the override.
C2_ModelOverriddenThenRestored ==
    /\ t_pc = "override" => client.model = DefaultModel(t_provider)
    /\ InTry =>
        /\ client.model = t_model_name
        /\ original_model = DefaultModel(t_provider)
    /\ last_call.fn # "none" => last_call.model = t_model_name
    /\ (Ended /\ client.exists) =>
        /\ client.model = original_model
        /\ client.model = DefaultModel(t_provider)

\* C2 witness: the save failed after provider calls, and the model is restored
C2_Witness ==
    /\ t_pc = "raised"
    /\ t_outcome = [kind |-> "exception", error |-> "OSError"]
    /\ last_call.fn = "grade_open_ended"
    /\ last_call.model = t_model_name
    /\ client.exists
    /\ client.model = DefaultModel(t_provider)
    /\ client.model # t_model_name

\* C3: the result returned has exactly one entry per exam question, in exam
\* order and with the question's id, whatever provider calls failed, and
\* total_questions is len(exam.questions).
C3_OneEntryPerQuestion ==
    /\ InTry =>
        /\ Len(per_question_results) = t_idx - 1
        /\ \A i \in 1..Len(per_question_results) : Entry(i).question_id = t_exam[i].id
    /\ t_outcome.kind = "result" =>
        LET r == t_outcome.result
        IN  /\ Len(r.per_question_results) = Len(t_exam)
            /\ \A i \in 1..Len(t_exam) :
                /\ r.per_question_results[i].question_id = t_exam[i].id
                /\ r.per_question_results[i].question_type = t_exam[i].type
            /\ r.total_questions = Len(t_exam)

\* C3 witness: a result whose first question failed and whose second was judged
C3_Witness ==
    /\ t_outcome.kind = "result"
    /\ Len(t_outcome.result.per_question_results) = 2
    /\ HasError(t_outcome.result.per_question_results[1])
    /\ ~HasError(t_outcome.result.per_question_results[2])

\* C4: a question whose answer_question, grade_open_ended or correctness check
\* raised is recorded with correct = false and an error field and is not
\* counted; correct_count is the number of questions that completed without an
\* exception and were judged correct.
C4_FailedQuestionsNotCounted ==
    /\ \A i \in 1..Len(per_question_results) : HasError(Entry(i)) => ~Entry(i).correct
    /\ correct_count =
        Cardinality({i \in 1..Len(per_question_results) : ~HasError(Entry(i)) /\ Entry(i).correct})
    /\ (last_call.fn # "none" /\ last_call.outcome = "raise" /\ t_pc # "grade_open_ended") =>
        /\ per_question_results # <<>>
        /\ HasError(Entry(Len(per_question_results)))
        /\ Entry(Len(per_question_results)).question_id = last_call.question_id
    /\ t_outcome.kind = "result" =>
        t_outcome.result.correct_count =
            Cardinality({i \in 1..Len(per_question_results) : ~HasError(Entry(i)) /\ Entry(i).correct})

\* C4 witness: a question judged correct, then a question that failed, one counted
C4_Witness ==
    /\ t_outcome.kind = "result"
    /\ Len(per_question_results) = 2
    /\ Entry(1).correct
    /\ HasError(Entry(2))
    /\ t_outcome.result.correct_count = 1

C18_SaveFailureConfined ==
    (Ended /\ t_result # NoResult) =>
        /\ t_outcome.kind = "result"
        /\ t_outcome.result = t_result

\* the call returned a ModelTestResult
Returned == t_pc = "returned" /\ t_outcome.kind = "result"

\* the entries up to i that are marked correct, counted one by one
RECURSIVE MarkedCorrectUpTo(_, _)
MarkedCorrectUpTo(entries, i) ==
    IF i = 0 THEN 0
    ELSE MarkedCorrectUpTo(entries, i - 1) + (IF entries[i].correct THEN 1 ELSE 0)

MarkedCorrect(entries) == MarkedCorrectUpTo(entries, Len(entries))

\* C19 (as stated): the accuracy of a returned result is 0.0 exactly when the
\* exam has no questions.
C19_ZeroAccuracyIffEmptyExam ==
    Returned => (t_outcome.result.accuracy = 0 <=> t_exam = <<>>)

\* C19 (amended): the accuracy of a returned result is 0.0 for an empty exam
\* and for every exam none of whose questions was judged correct; it is
\* non-zero only when some question was judged correct.
C19_ZeroAccuracyWhenNoneCorrect ==
    Returned =>
        /\ t_exam = <<>> => t_outcome.result.accuracy = 0
        /\ MarkedCorrect(t_outcome.result.per_question_results) = 0
              => t_outcome.result.accuracy = 0
        /\ t_outcome.result.accuracy # 0 =>
            /\ t_exam # <<>>
            /\ MarkedCorrect(t_outcome.result.per_question_results) > 0

\* C19 witness: a returned result for a two-question exam, both questions
\* answered without error and judged wrong: accuracy 0.0
C19_Witness ==
    /\ Returned
    /\ Len(t_exam) = 2
    /\ \A i \in 1..2 : ~HasError(t_outcome.result.per_question_results[i])
    /\ t_outcome.result.accuracy = 0

\* C20 (as stated): accuracy = correct_count / total_questions when
\* total_questions > 0 and 0.0 when it is 0; an empty exam still gives a result,
\* with zero entries.
C20_AccuracyIsRatio ==
    Returned =>
        LET r == t_outcome.result
        IN  /\ r.total_questions = Len(t_exam)
            /\ r.correct_count = MarkedCorrect(r.per_question_results)
            /\ r.total_questions > 0 => r.accuracy * r.total_questions = r.correct_count * 10000
            /\ r.total_questions = 0 => r.accuracy = 0 /\ r.per_question_results = <<>>

\* C20 (amended): accuracy = round(correct_count / total_questions, 4) when
\* total_questions > 0 and 0.0 when it is 0; an empty exam still gives a result,
\* with zero entries.
C20_AccuracyIsRoundedRatio ==
    Returned =>
        LET r == t_outcome.result
        IN  /\ r.total_questions = Len(t_exam)
            /\ r.correct_count = MarkedCorrect(r.per_question_results)
            /\ r.total_questions > 0 =>
                  r.accuracy = RoundInt(r.correct_count * 10000, r.total_questions)
            /\ r.total_questions = 0 => r.accuracy = 0 /\ r.per_question_results = <<>>

\* C20 witness: one question of three judged correct: accuracy 0.3333
C20_Witness ==
    /\ Returned
    /\ t_outcome.result.total_questions = 3
    /\ t_outcome.result.correct_count = 1
    /\ t_outcome.result.accuracy = 3333

\* entry i is the entry of an open_ended question that was answered and graded
GradedOpenEnded(i) ==
    /\ Entry(i).question_type = "open_ended"
    /\ ~HasError(Entry(i))

\* C21: an open_ended item is marked correct if and only if the score that
\* grade_open_ended returned is >= 0.7 (exactly 0.7 is correct, 0.67 is not),
\* and its entry records the model answer, the reference answer, the score,
\* the feedback and the rubric scores.
C21_OpenEndedThreshold ==
    \A i \in 1..Len(per_question_results) :
        GradedOpenEnded(i) =>
            /\ {"model_answer", "expected_answer", "grading_score", "feedback",
                 "rubric_scores"} \subseteq DOMAIN Entry(i)
            /\ Entry(i).correct <=> 10 * Entry(i).grading_score[1] >= 7 * Entry(i).grading_score[2]
            /\ Entry(i).expected_answer = t_exam[i].reference_answer
            /\ Entry(i).model_answer = "a"
            /\ Len(Entry(i).rubric_scores) = Len(t_exam[i].rubric)

\* C21 witness: a returned result with an open_ended item of score exactly 0.7,
\* marked correct and counted
C21_Witness ==
    /\ Returned
    /\ \E i \in 1..Len(per_question_results) :
        /\ GradedOpenEnded(i)
        /\ Entry(i).grading_score = Rat(7, 10)
        /\ Entry(i).correct
    /\ t_outcome.result.correct_count = 1

RECURSIVE SumUpTo(_, _)
SumUpTo(l, i) == IF i = 0 THEN 0 ELSE SumUpTo(l, i - 1) + l[i]

\* C25 (as stated): every grade_open_ended result that the evaluator used has
\* len(rubric_scores) = len(rubric) and score = sum(rubric_scores) / len(rubric);
\* a response that breaks either is a failure and decides nothing.
C25_GradingResultMeetsContract ==
    \A i \in 1..Len(per_question_results) :
        GradedOpenEnded(i) =>
            LET scores == Entry(i).rubric_scores
                score == Entry(i).grading_score
                rubric == t_exam[i].rubric
            IN  /\ Len(scores) = Len(rubric)
                /\ score[1] * Len(rubric) = SumUpTo(scores, Len(scores)) * score[2]

\* the running call counts, entry by entry, what it marked correct
C30_CountIsTally ==
    /\ correct_count = MarkedCorrect(per_question_results)
    /\ 0 <= correct_count /\ correct_count <= Len(t_exam)
    /\ Returned =>
        LET r == t_outcome.result
        IN  /\ r.correct_count = MarkedCorrect(r.per_question_results)
            /\ 0 <= r.correct_count /\ r.correct_count <= r.total_questions
            /\ 0 <= r.accuracy /\ r.accuracy <= 10000

\* a step that records a failed question leaves correct_count as it was
C30_FailureStep ==
    (/\ Len(per_question_results') = Len(per_question_results) + 1
     /\ HasError(per_question_results'[Len(per_question_results')]))
        => correct_count' = correct_count

\* C30: at every point of the loop and in the returned result, correct_count is
\* the number of entries with correct = true, so 0 <= correct_count <=
\* total_questions and 0.0 <= accuracy <= 1.0; a question that fails never has
\* the verdict of an earlier question counted again.
C30_CorrectCountIsTally == []C30_CountIsTally /\ [][C30_FailureStep]_vars

\* C30 witness: a question judged correct and counted, then a question that
\* failed while is_correct still held the earlier verdict; the count stays 1
C30_Witness ==
    /\ t_pc = "loop"
    /\ Len(per_question_results) = 2
    /\ Entry(1).correct /\ ~HasError(Entry(1))
    /\ HasError(Entry(2))
    /\ t_is_correct
    /\ correct_count = 1

----------------------------------------------------------------------------
(* Claims about ModelAnswerTester.batch_test_models *)

ReturnedNormally(a) == a.ended = "returned"
Succeeded == SelectSeq(attempts, ReturnedNormally)

\* C6: batch_test_models attempts every model config exactly once, in input
\* order; a model whose test raised (unsupported provider, failed save, ...) is
\* skipped and the later models are still attempted; the list returned is the
\* subsequence, in input order, of the models whose call returned normally.
C6_BatchSkipsFailuresKeepsOrder ==
    /\ \A k \in 1..Len(attempts) : attempts[k].index = k
    /\ b_pc \in {"loop", "calling"} => Len(attempts) = b_idx - 1
    /\ b_pc = "calling" =>
        /\ b_idx <= Len(models)
        /\ t_model_name = models[b_idx].model_name
        /\ t_provider = models[b_idx].provider
    /\ b_pc = "returned" => Len(attempts) = Len(models)
    /\ Len(results) = Len(Succeeded)
    /\ \A k \in 1..Len(results) :
        /\ results[k].model_name = models[Succeeded[k].index].model_name
        /\ results[k].provider = models[Succeeded[k].index].provider
    /\ \A k \in 1..Len(attempts) :
        models[k].provider \notin SupportedProviders => attempts[k].ended = "raised"
    /\ (entry = "batch_test_models" /\ ~ENABLED BatchTestModels) => b_pc = "returned"

\* C6 witness: the first model raised, the second was still tested and returned
C6_Witness ==
    /\ b_pc = "returned"
    /\ Len(models) = 2
    /\ attempts[1].ended = "raised"
    /\ attempts[2].ended = "returned"
    /\ Len(results) = 1
    /\ results[1].model_name = models[2].model_name

\* where the question with this id stands in the exam
Pos(id) == CHOOSE k \in 1..Len(t_exam) : t_exam[k].id = id

\* this step makes a provider call
Called == last_call' # last_call

\* the running call of test_model_on_exam has already made a provider call
RunHasCalled == per_question_results # <<>> \/ t_pc = "grade_open_ended"

C27_CallStep ==
    Called =>
        LET old == last_call
            new == last_call'
        IN  /\ Len(per_question_results) = Pos(new.question_id) - 1
            /\ RunHasCalled =>
                /\ old.run = new.run
                /\ Pos(old.question_id) <= Pos(new.question_id)
            /\ new.fn = "answer_question" =>
                /\ t_pc = "loop"
                /\ RunHasCalled => Pos(old.question_id) < Pos(new.question_id)
            /\ new.fn = "grade_open_ended" =>
                /\ old.fn = "answer_question"
                /\ old.outcome = "return"
                /\ old.question_id = new.question_id
                /\ old.run = new.run
                /\ "text_answer" \in DOMAIN model_answer
                /\ t_exam[Pos(new.question_id)].type = "open_ended"
            /\ entry = "batch_test_models" =>
                /\ b_pc = "calling"
                /\ new.run = models[b_idx].model_name
                /\ Len(attempts) = b_idx - 1

\* C27: provider calls are made one at a time and in order: a call for a
\* question is made only when every earlier question of the run has its entry;
\* grade_open_ended is called only right after answer_question returned an
\* answer for the same open_ended question, never after it failed; in a batch
\* a call for a model is made only when every earlier model's run has ended.
C27_ProviderCallsInOrder == [][C27_CallStep]_vars

\* C27 witness: in a batch, the second model's run has dealt with its first
\* question and has just graded its second, an open_ended one
C27_Witness ==
    /\ entry = "batch_test_models"
    /\ Len(attempts) = 1
    /\ b_pc = "calling"
    /\ Len(per_question_results) = 2
    /\ last_call.fn = "grade_open_ended"
    /\ last_call.run = models[2].model_name
    /\ last_call.question_id = t_exam[2].id

----------------------------------------------------------------------------
(* Claims about two calls of test_model_on_exam running side by side *)

\* the call holds a client
HasClient(p) == runs[p].client # 0

\* every provider call of a call was sent under that call's model_name, and two
\* calls never hold the same client object
C26_OwnClient ==
    \A p \in DOMAIN runs :
        /\ runs[p].used \subseteq {runs[p].model_name}
        /\ \A q \in DOMAIN runs :
            (p # q /\ HasClient(p) /\ HasClient(q)) => runs[p].client # runs[q].client

\* the finally block of one call leaves the model of the other call's client alone
C26_RestoreStep ==
    \A p, q \in DOMAIN runs :
        (/\ p # q
         /\ runs[p].pc = "finally"
         /\ runs'[p].pc = "returned"
         /\ HasClient(q))
            => instances'[runs[q].client] = instances[runs[q].client]

\* C26: two test_model_on_exam calls that run side by side under different
\* model names do not cross-talk: each constructs and overrides a client of its
\* own, every provider call of a call is sent under that call's model_name,
\* and the restore of one call never changes the model the other one uses.
C26_NoCrossTalk == []C26_OwnClient /\ [][C26_RestoreStep]_vars

\* C26 witness: one call has restored its client and returned while the other,
\* overridden to another model name, is in its loop and has sent a call
C26_Witness ==
    /\ runs # <<>>
    /\ \E p, q \in DOMAIN runs :
        /\ p # q
        /\ runs[p].pc = "returned"
        /\ runs[p].used = {runs[p].model_name}
        /\ runs[q].pc = "loop"
        /\ runs[q].idx <= Len(t_exam)
        /\ runs[q].used = {runs[q].model_name}
        /\ instances[runs[q].client] = runs[q].model_name
        /\ instances[runs[p].client] = DefaultModel(runs[p].provider)

----------------------------------------------------------------------------
(* Claims about ModelAnswerTester.compare_models *)

MaxAccuracy == CHOOSE a \in {c_results[i].accuracy : i \in 1..Len(c_results)} :
                  \A i \in 1..Len(c_results) : c_results[i].accuracy <= a
FirstAtMax == CHOOSE i \in 1..Len(c_results) :
                  /\ c_results[i].accuracy = MaxAccuracy
                  /\ \A j \in 1..(i - 1) : c_results[j].accuracy # MaxAccuracy

\* C7 (as stated): for a non-empty results list, best_model is the model_name
\* of the first result whose accuracy is the maximum accuracy; a later result
\* with an equal accuracy never replaces it; best_model is always the name of
\* one of the results, also when every accuracy is 0.0.
C7_BestModelIsFirstAtMaximum ==
    (c_pc = "returned" /\ c_results # <<>>) =>
        /\ c_outcome.value.best_model = c_results[FirstAtMax].model_name
        /\ c_outcome.value.best_accuracy = MaxAccuracy
        /\ \E i \in 1..Len(c_results) : c_outcome.value.best_model = c_results[i].model_name

\* C22: compare_models on an empty results list returns an error marker and
\* nothing of a comparison: no best_model, no per-question breakdown, and no
\* comparison file, also when output_dir is given.
C22_EmptyResultsGiveErrorMarker ==
    (entry = "none" /\ c_pc # "idle" /\ c_results = <<>>) =>
        /\ c_pc \in {"start", "returned"}
        /\ comparison = NoComparison
        /\ question_breakdown = <<>>
        /\ files = <<>>
        /\ c_pc = "returned" =>
            /\ c_outcome.kind = "return"
            /\ DOMAIN c_outcome.value = {"error"}
        /\ ~ENABLED CompareModels => c_pc = "returned"

\* C22 witness: the call on an empty list with output_dir given has returned
C22_Witness ==
    /\ c_results = <<>>
    /\ c_output_dir
    /\ c_pc = "returned"
    /\ "error" \in DOMAIN c_outcome.value

\* the comparison was built and returned
Compared == c_pc = "returned" /\ c_results # <<>>
Breakdown == c_outcome.value.per_question_breakdown

\* the (result, entry) pairs about question q_id
PairsAbout(q_id) ==
    {<<i, j>> \in (1..Len(c_results)) \X (1..MaxCompareQuestions) :
        /\ j <= Len(c_results[i].per_question_results)
        /\ c_results[i].per_question_results[j].question_id = q_id}

\* the entry of a pair says correct = true
SaysCorrect(pair) ==
    LET e == c_results[pair[1]].per_question_results[pair[2]]
    IN  "correct" \in DOMAIN e /\ e.correct

\* how often name is in list l
Times(name, l) == Cardinality({k \in 1..Len(l) : l[k] = name})

NamesCompared == {c_results[i].model_name : i \in 1..Len(c_results)}
IdsCompared ==
    UNION {{c_results[i].per_question_results[j].question_id :
                j \in 1..Len(c_results[i].per_question_results)} :
            i \in 1..Len(c_results)}

====
